---- MODULE Spec2Model ----
(***************************************************************************)
(* Model of examples/example-mcp/payments.py: the three MCP tools          *)
(* authorize_payment, sync_payment and get_payment_details, the enum       *)
(* mappers they use, and the gRPC transport they drive (channel, stub,     *)
(* remote method).  Spec is one caller running the tools one after another *)
(* over the full input sets; ConcSpec is two callers running them          *)
(* concurrently over the smaller Concurrent... input sets.                 *)
(*                                                                         *)
(* Python strings that the code transforms (upper, lower, str, hex,        *)
(* concatenation) are sequences of one-character strings; None is "None"   *)
(* for wire enum values and the empty tuple for optional arguments         *)
(* (Some(x) is the one-element tuple).                                     *)
(***************************************************************************)
EXTENDS Integers, Sequences, FiniteSets, TLC

\* ------------------------------------------------------------------ bounds
\* os.urandom(n) yields one of the values 0..MaxRand
MaxRand == 1

\* ----------------------------------------------------------------- strings
None == "None"
Nothing == <<>>
Some(x) == <<x>>

Lowers == <<"a","b","c","d","e","f","g","h","i","j","k","l","m",
            "n","o","p","q","r","s","t","u","v","w","x","y","z">>
Uppers == <<"A","B","C","D","E","F","G","H","I","J","K","L","M",
            "N","O","P","Q","R","S","T","U","V","W","X","Y","Z">>

UpperChar(c) ==
    IF \E i \in 1..26 : Lowers[i] = c
    THEN Uppers[CHOOSE i \in 1..26 : Lowers[i] = c]
    ELSE c

LowerChar(c) ==
    IF \E i \in 1..26 : Uppers[i] = c
    THEN Lowers[CHOOSE i \in 1..26 : Uppers[i] = c]
    ELSE c

\* str.upper()
upper(s) == [i \in 1..Len(s) |-> UpperChar(s[i])]

\* str.lower()
lower(s) == [i \in 1..Len(s) |-> LowerChar(s[i])]

Digits == <<"0","1","2","3","4","5","6","7","8","9">>
HexDigits == <<"0","1","2","3","4","5","6","7","8","9","a","b","c","d","e","f">>

\* str(n) of a non-negative int
RECURSIVE str(_)
str(n) == IF n < 10 THEN <<Digits[n + 1]>>
          ELSE Append(str(n \div 10), Digits[(n % 10) + 1])

\* bytes.hex() of the big-endian value v held in nbytes bytes
RECURSIVE hexdigits(_, _)
hexdigits(v, ndigits) ==
    IF ndigits = 0 THEN <<>>
    ELSE Append(hexdigits(v \div 16, ndigits - 1), HexDigits[(v % 16) + 1])

hex(v, nbytes) == hexdigits(v, 2 * nbytes)

\* os.urandom(n): the values the model lets it return
urandom == 0..MaxRand

\* ------------------------------------------------------------------ tokens
USD == <<"U","S","D">>
EUR == <<"E","U","R">>
GBP == <<"G","B","P">>
INR == <<"I","N","R">>
STRIPE == <<"S","T","R","I","P","E">>
RAZORPAY == <<"R","A","Z","O","R","P","A","Y">>
ADYEN == <<"A","D","Y","E","N">>
card == <<"c","a","r","d">>
razorpay == <<"r","a","z","o","r","p","a","y">>

\* class Currency(str, Enum): the member values
Currency == {USD, EUR, GBP, INR}

\* class PaymentMethod(str, Enum)
PaymentMethod == {card}

\* class Connector(str, Enum)
Connector == {STRIPE, RAZORPAY, ADYEN}

\* Razorpay placeholder credentials
RAZORPAY_API_KEY == "<YOUR_RAZORPAY_API_KEY>"
RAZORPAY_KEY1 == "<YOUR_RAZORPAY_KEY1>"

\* ------------------------------------------------------------ enum mappers
currency_map ==
    [k \in Currency |->
        CASE k = USD -> "PBCurrency.USD"
          [] k = EUR -> "PBCurrency.EUR"
          [] k = GBP -> "PBCurrency.GBP"
          [] k = INR -> "PBCurrency.INR"]

\* dict.get(key) with the default None
map_currency(currency_str) ==
    LET key == upper(currency_str)
    IN  IF key \in DOMAIN currency_map THEN currency_map[key] ELSE None

connector_map ==
    [k \in Connector |->
        CASE k = RAZORPAY -> "PBConnector.RAZORPAY"
          [] k = STRIPE -> "PBConnector.STRIPE"
          [] k = ADYEN -> "PBConnector.ADYEN"]

map_connector(connector_str) ==
    IF connector_str \in DOMAIN connector_map
    THEN connector_map[connector_str] ELSE None

method_map == [k \in {card} |-> "PBPaymentMethod.CARD"]

map_payment_method(method_str) ==
    LET key == lower(method_str)
    IN  IF key \in DOMAIN method_map THEN method_map[key]
        ELSE "PBPaymentMethod.CARD"

\* ------------------------------------------------------------- minor units
\* An amount is held in thousandths of the major unit (milli = 1999 is the
\* float 1.999).  DoubleProductBelow lists the amounts 0 < milli <= 3000 whose
\* IEEE-754 double product amount * 100 falls just below the exact integer
\* milli / 10 (0.29 * 100 = 28.999999999999996); no other amount in that
\* range has a product on the other side of an integer from milli / 10.
DoubleProductBelow ==
    {290, 570, 580, 1130, 1140, 1150, 1160, 2010, 2030, 2050, 2070,
     2260, 2280, 2300, 2320, 2510, 2530, 2550}

\* int(amount * 100): the double product, truncated towards zero
IntTimes100(milli) ==
    IF milli \in DoubleProductBelow THEN (milli \div 10) - 1
    ELSE milli \div 10

\* ---------------------------------------------------- status normalisation
pending_authentication ==
    <<"p","e","n","d","i","n","g","_","a","u","t","h","e","n","t","i","c",
      "a","t","i","o","n">>
charged == <<"c","h","a","r","g","e","d">>
pending == <<"p","e","n","d","i","n","g">>
unknown == <<"u","n","k","n","o","w","n">>
authorized == <<"a","u","t","h","o","r","i","z","e","d">>
succeeded == <<"s","u","c","c","e","e","d","e","d">>

status_map ==
    [k \in {<<"3">>, <<"7">>, <<"2">>} |->
        CASE k = <<"3">> -> pending_authentication
          [] k = <<"7">> -> charged
          [] k = <<"2">> -> pending]

hasattr(obj, name) == name \in DOMAIN obj

\* the status block of authorize_payment
AuthorizeStatus(response) ==
    IF hasattr(response, "status")
    THEN LET status_str == str(response.status)
         IN  IF status_str \in DOMAIN status_map THEN status_map[status_str]
             ELSE lower(status_str)
    ELSE unknown

\* a status block whose table has drifted from the one of authorize_payment
SyncStatusDrifted(response) ==
    IF hasattr(response, "status")
    THEN LET status_str == str(response.status)
         IN  IF status_str = <<"7">> THEN pending
             ELSE IF status_str \in DOMAIN status_map THEN status_map[status_str]
             ELSE unknown
    ELSE unknown

\* the status block of sync_payment
SyncStatus(response) ==
    IF hasattr(response, "status")
    THEN LET status_str == str(response.status)
         IN  IF status_str \in DOMAIN status_map THEN status_map[status_str]
             ELSE lower(status_str)
    ELSE unknown

\* ------------------------------------------------------------------ inputs
Threads == {"t1", "t2"}

Unset == [unset |-> TRUE]

required_card_fields == {"card_number", "card_exp_month", "card_exp_year", "card_cvc"}

\* the default card of authorize_payment
DefaultCard ==
    [card_number |-> "4242424242424242", card_exp_month |-> "12",
     card_exp_year |-> "2025", card_cvc |-> "123"]

\* the card of test_payment_flow
TestCard ==
    [card_number |-> "5123456789012346", card_exp_month |-> "12",
     card_exp_year |-> "2025", card_cvc |-> "123"]

\* a card_details argument that is no dict: "field in 5" is a TypeError
NotADict == [int |-> 5]

Num(milli) == [kind |-> "num", milli |-> milli]
NaN == [kind |-> "nan", milli |-> 0]
NotANumber == [kind |-> "str", milli |-> 0]

order_1 == <<"o","r","d","e","r","_","1">>
pay_1 == <<"p","a","y","_","1">>
txn_1 == <<"t","x","n","_","1">>
EmptyStr == <<>>

\* the call every other authorize call of the model departs from
BaseAuthorize ==
    [amount |-> Num(1000), currency |-> USD, connector |-> STRIPE,
     api_key |-> "", payment_method |-> card, card_details |-> Nothing,
     email |-> "test@example.com", reference_id |-> Some(order_1)]

AuthorizeArgs ==
    {[BaseAuthorize EXCEPT !.amount = x] :
        x \in {Num(1000), Num(290), Num(1999), Num(0), Num(0 - 1000), NaN, NotANumber}}
    \cup {[BaseAuthorize EXCEPT !.currency = x] :
        x \in {INR, <<"u","s","d">>, <<"X","Y","Z">>}}
    \cup {[BaseAuthorize EXCEPT !.connector = x, !.api_key = k] :
        x \in {RAZORPAY, <<"R","a","z","o","r","p","a","y">>, <<"B","I","T","C","O","I","N">>},
        k \in {"", "sk_test"}}
    \cup {[BaseAuthorize EXCEPT !.connector = ADYEN]}
    \cup {[BaseAuthorize EXCEPT !.api_key = "sk_test"]}
    \cup {[BaseAuthorize EXCEPT !.payment_method = x] :
        x \in {<<"C","A","R","D">>, <<"u","p","i">>}}
    \cup {[BaseAuthorize EXCEPT !.card_details = Some(x)] :
        x \in {TestCard,
               [TestCard EXCEPT !.card_cvc = ""],
               [TestCard EXCEPT !.card_number = ""],
               [f \in required_card_fields \ {"card_cvc"} |-> TestCard[f]],
               [f \in required_card_fields \ {"card_exp_month"} |-> TestCard[f]],
               NotADict}}
    \cup {[BaseAuthorize EXCEPT !.reference_id = x] :
        x \in {Nothing, Some(EmptyStr)}}

BaseSync ==
    [payment_id |-> pay_1, connector |-> RAZORPAY, api_key |-> "",
     reference_id |-> Nothing]

SyncArgs ==
    {[BaseSync EXCEPT !.payment_id = x] : x \in {pay_1, EmptyStr}}
    \cup {[BaseSync EXCEPT !.connector = x] :
        x \in {STRIPE, ADYEN, razorpay, <<"B","I","T","C","O","I","N">>}}
    \cup {[BaseSync EXCEPT !.api_key = "sk_test"]}
    \cup {[BaseSync EXCEPT !.reference_id = x] :
        x \in {Some(order_1), Some(EmptyStr)}}

DetailsArgs == {pay_1, EmptyStr}

\* the inputs of two concurrent callers
ConcurrentAuthorizeArgs ==
    {BaseAuthorize,
     [BaseAuthorize EXCEPT !.connector = RAZORPAY],
     [BaseAuthorize EXCEPT !.amount = NaN]}

ConcurrentSyncArgs ==
    {BaseSync, [BaseSync EXCEPT !.connector = ADYEN]}

ConcurrentDetailsArgs == {pay_1}

\* the process environment: PATH is always set, API_KEY and KEY1 may be
Environments ==
    {[PATH |-> "/usr/bin"],
     [PATH |-> "/usr/bin", API_KEY |-> "env_api_key"],
     [PATH |-> "/usr/bin", KEY1 |-> "env_key1"],
     [PATH |-> "/usr/bin", API_KEY |-> "env_api_key", KEY1 |-> "env_key1"]}

\* wire status codes the remote side answers with (3, 7, 2 are in status_map)
StatusCodes == {2, 3, 7, 4, 99}

FullAuthorizeResponse(code) ==
    [status |-> code,
     resource_id |-> [connector_transaction_id |-> txn_1],
     redirection_data |-> [form |-> [endpoint |-> "https://acs.example/3ds"]]]

\* PaymentsAuthorizeResponse values, with optional substructures absent
AuthorizeResponses ==
    {FullAuthorizeResponse(c) : c \in StatusCodes}
    \cup {[status |-> 7],
          [status |-> 7, resource_id |-> [other_id |-> txn_1]],
          [status |-> 7, resource_id |-> [connector_transaction_id |-> EmptyStr]],
          [status |-> 3, resource_id |-> [connector_transaction_id |-> txn_1],
           redirection_data |-> [html |-> "x"]],
          [status |-> 3, resource_id |-> [connector_transaction_id |-> txn_1],
           redirection_data |-> [form |-> [method |-> "POST"]]],
          [resource_id |-> [connector_transaction_id |-> txn_1]]}

\* PaymentsSyncResponse values
SyncResponses ==
    {[status |-> c, resource_id |-> [connector_transaction_id |-> txn_1]] :
        c \in StatusCodes}
    \cup {[status |-> 7],
          [status |-> 7, resource_id |-> [other_id |-> txn_1]],
          [status |-> 7, resource_id |-> [connector_transaction_id |-> EmptyStr]],
          [resource_id |-> [connector_transaction_id |-> txn_1]]}

ConcurrentAuthorizeResponses == {FullAuthorizeResponse(7), [status |-> 4]}

ConcurrentSyncResponses ==
    {[status |-> 7, resource_id |-> [connector_transaction_id |-> txn_1]],
     [status |-> 2]}

\* grpc.RpcError values: (code(), details())
RpcErrors == {<<"StatusCode.UNAVAILABLE", "failed to connect">>}

\* str(e) of any other exception the transport raises
TransportExceptions == {"transport failure"}

\* ------------------------------------------------------------------- state
VARIABLES
    GRPC_AVAILABLE,  \* module flag set at import
    callers,         \* the threads that call the tools
    environ,         \* os.environ
    open_channels,   \* channels of the gRPC runtime that are open
    pc,              \* per caller: "idle", "open", "invoke", "finally", "done"
    op,              \* per caller: the tool being run
    args,            \* per caller: the arguments of the call
    creds,           \* per caller: locals api_key and key1 after resolution
    channel,         \* per caller: local channel: "none", "open", "closed"
    request,         \* per caller: the wire request built
    invoked,         \* per caller: remote methods invoked by this call
    response,        \* per caller: the remote response received
    result,          \* per caller: the value returned (pending in "finally")
    random,          \* per caller: what os.urandom(4) returned to this call
    previous         \* per caller: what the call before this one sent
                     \* (history, kept for a single caller only)

vars == <<GRPC_AVAILABLE, callers, environ, open_channels, pc, op, args, creds,
          channel, request, invoked, response, result, random, previous>>

\* the state after import, for a given set of calling threads
InitWith(threads) ==
    /\ GRPC_AVAILABLE \in BOOLEAN
    /\ callers = threads
    /\ environ \in Environments
    /\ open_channels = 0
    /\ pc = [t \in Threads |-> "idle"]
    /\ op = [t \in Threads |-> "none"]
    /\ args = [t \in Threads |-> Unset]
    /\ creds = [t \in Threads |-> Unset]
    /\ channel = [t \in Threads |-> "none"]
    /\ request = [t \in Threads |-> Unset]
    /\ invoked = [t \in Threads |-> <<>>]
    /\ response = [t \in Threads |-> Unset]
    /\ result = [t \in Threads |-> Unset]
    /\ random = [t \in Threads |-> Nothing]
    /\ previous = [t \in Threads |-> Nothing]

Init == InitWith({"t1"})

ConcInit == InitWith(Threads)

\* the inputs a caller draws from: the full sets for one caller, the
\* Concurrent sets for two
Concurrent == Cardinality(callers) > 1
AuthorizeInputs == IF Concurrent THEN ConcurrentAuthorizeArgs ELSE AuthorizeArgs
SyncInputs == IF Concurrent THEN ConcurrentSyncArgs ELSE SyncArgs
DetailsInputs == IF Concurrent THEN ConcurrentDetailsArgs ELSE DetailsArgs
AuthorizeAnswers ==
    IF Concurrent THEN ConcurrentAuthorizeResponses ELSE AuthorizeResponses
SyncAnswers == IF Concurrent THEN ConcurrentSyncResponses ELSE SyncResponses

\* os.environ.get(name, default)
EnvGet(name, default) ==
    IF name \in DOMAIN environ THEN environ[name] ELSE default

Error(msg) == [error |-> msg]

\* an exception in flight, with its str(e)
Raise(msg) == [raised |-> msg]

\* the outer try left out: the exception escapes to the caller
OuterExceptEscapes(outcome) == outcome

\* the outer try of each tool: "except Exception as e: return {"error": str(e)}"
OuterExcept(outcome) ==
    IF "raised" \in DOMAIN outcome THEN Error(<<outcome.raised>>) ELSE outcome

\* card_details after the default is applied
CardOf(a) == IF a.card_details = Nothing THEN DefaultCard ELSE a.card_details[1]

\* the validation block without the connector check
AuthorizeValidationNoConnector(a) ==
    IF a.amount.kind = "str" \/ (a.amount.kind = "num" /\ a.amount.milli <= 0)
    THEN Some(Error(<<"Invalid amount">>))
    ELSE IF a.currency \notin Currency
    THEN Some(Error(<<"Unsupported currency">>))
    ELSE Nothing

\* the validation block of authorize_payment: the dict returned or the
\* exception raised, or Nothing when the call goes on
AuthorizeValidation(a) ==
    IF a.amount.kind = "str" \/ (a.amount.kind = "num" /\ a.amount.milli <= 0)
    THEN Some(Error(<<"Invalid amount">>))
    ELSE IF a.currency \notin Currency
    THEN Some(Error(<<"Unsupported currency">>))
    ELSE IF a.connector \notin Connector
    THEN Some(Error(<<"Unsupported payment connector">>))
    ELSE IF a.payment_method \notin PaymentMethod
    THEN Some(Error(<<"Unsupported payment method">>))
    ELSE IF CardOf(a) = NotADict
    THEN Some(Raise("argument of type 'int' is not iterable"))
    ELSE IF ~ (\A field \in required_card_fields : field \in DOMAIN CardOf(a))
    THEN Some(Error(<<"Missing required card details">>))
    ELSE Nothing

\* the validation block of sync_payment
SyncValidation(a) ==
    IF a.payment_id = EmptyStr
    THEN Some(Error(<<"Payment ID is required">>))
    ELSE IF a.connector \notin Connector
    THEN Some(Error(<<"Unsupported payment connector">>))
    ELSE Nothing

\* credential resolution through a module-level cache: the bundle some call
\* resolved for RAZORPAY is reused by whoever comes next
ResolveCredentialsCached(connector, api_key) ==
    IF \E u \in callers : creds[u] # Unset /\ creds[u].key1 # ""
    THEN creds[CHOOSE u \in callers : creds[u] # Unset /\ creds[u].key1 # ""]
    ELSE IF lower(connector) = razorpay
    THEN [api_key |-> IF api_key = "" THEN EnvGet("API_KEY", RAZORPAY_API_KEY)
                      ELSE api_key,
          key1 |-> EnvGet("KEY1", RAZORPAY_KEY1)]
    ELSE [api_key |-> api_key, key1 |-> ""]

\* credential resolution that lets the environment override a supplied api_key
ResolveCredentialsOverrides(connector, api_key) ==
    IF lower(connector) = razorpay
    THEN [api_key |-> EnvGet("API_KEY", RAZORPAY_API_KEY),
          key1 |-> EnvGet("KEY1", RAZORPAY_KEY1)]
    ELSE [api_key |-> api_key, key1 |-> ""]

\* credential resolution, the same block in both tools
ResolveCredentials(connector, api_key) ==
    IF lower(connector) = razorpay
    THEN [api_key |-> IF api_key = "" THEN EnvGet("API_KEY", RAZORPAY_API_KEY)
                      ELSE api_key,
          key1 |-> EnvGet("KEY1", RAZORPAY_KEY1)]
    ELSE [api_key |-> api_key, key1 |-> ""]

\* x or y for an optional string argument
Truthy(opt) == opt # Nothing /\ opt[1] # EmptyStr

ref_ == <<"r","e","f","_">>
conn_req_ == <<"c","o","n","n","_","r","e","q","_">>
pay_ == <<"p","a","y","_">>

\* ---------------------------------------------------------- wire requests
\* PaymentsAuthorizeRequest(...) for a call that passed validation; rnd is
\* the value os.urandom(4) returns
AuthorizeRequest(a, c, rnd) ==
    [amount |-> IntTimes100(a.amount.milli),
     currency |-> map_currency(a.currency),
     connector |-> map_connector(a.connector),
     auth_creds |-> [api_key |-> c.api_key, key1 |-> c.key1],
     payment_method |-> map_payment_method(a.payment_method),
     payment_method_data |-> CardOf(a),
     auth_type |-> "AuthenticationType.THREE_DS",
     connector_request_reference_id |->
         IF Truthy(a.reference_id) THEN a.reference_id[1]
         ELSE ref_ \o hex(rnd, 4),
     enrolled_for_3ds |-> TRUE,
     request_incremental_authorization |-> FALSE,
     minor_amount |-> IntTimes100(a.amount.milli),
     email |-> a.email]

\* a sync request that always generates its reference id
SyncRequestAlwaysGenerates(a, c, rnd) ==
    [connector |-> map_connector(a.connector),
     auth_creds |-> [api_key |-> c.api_key, key1 |-> c.key1],
     resource_id |-> a.payment_id,
     connector_request_reference_id |-> conn_req_ \o hex(rnd, 4)]

\* PaymentsSyncRequest(...)
SyncRequest(a, c, rnd) ==
    [connector |-> map_connector(a.connector),
     auth_creds |-> [api_key |-> c.api_key, key1 |-> c.key1],
     resource_id |-> a.payment_id,
     connector_request_reference_id |->
         IF Truthy(a.reference_id) THEN a.reference_id[1]
         ELSE conn_req_ \o hex(rnd, 4)]

\* ------------------------------------------------- response normalisation
ConnectorTransactionId(resp) ==
    IF hasattr(resp, "resource_id")
       /\ hasattr(resp.resource_id, "connector_transaction_id")
    THEN resp.resource_id.connector_transaction_id
    ELSE EmptyStr

RedirectUrl(resp) ==
    IF hasattr(resp, "redirection_data")
       /\ hasattr(resp.redirection_data, "form")
       /\ hasattr(resp.redirection_data.form, "endpoint")
    THEN resp.redirection_data.form.endpoint
    ELSE ""

\* the dict authorize_payment returns for a response
AuthorizeResult(a, resp) ==
    [status |-> AuthorizeStatus(resp),
     payment_id |-> ConnectorTransactionId(resp),
     amount |-> a.amount,
     currency |-> a.currency,
     connector |-> a.connector,
     reference_id |-> a.reference_id,
     redirect_url |-> RedirectUrl(resp),
     response_type |-> "<class 'payment_pb2.PaymentsAuthorizeResponse'>"]

\* the dict of sync_payment without the fall-back to the caller's payment_id
SyncResultNoFallback(a, resp) ==
    [status |-> SyncStatus(resp),
     payment_id |-> ConnectorTransactionId(resp),
     connector |-> a.connector,
     reference_id |-> a.reference_id,
     response_type |-> "<class 'payment_pb2.PaymentsSyncResponse'>"]

\* the dict sync_payment returns for a response
SyncResult(a, resp) ==
    [status |-> SyncStatus(resp),
     payment_id |-> IF ConnectorTransactionId(resp) # EmptyStr
                    THEN ConnectorTransactionId(resp) ELSE a.payment_id,
     connector |-> a.connector,
     reference_id |-> a.reference_id,
     response_type |-> "<class 'payment_pb2.PaymentsSyncResponse'>"]

\* the mock dict of authorize_payment (gRPC not available)
AuthorizeMock(a, rnd1, rnd2) ==
    [status |-> authorized,
     payment_id |-> pay_ \o hex(rnd1, 8),
     amount |-> a.amount,
     currency |-> a.currency,
     connector |-> a.connector,
     reference_id |-> IF Truthy(a.reference_id) THEN a.reference_id
                      ELSE Some(ref_ \o hex(rnd2, 8)),
     created_at |-> "2024-03-21T10:00:00Z",
     note |-> "Mock implementation (gRPC not available)"]

\* the mock dict of sync_payment
SyncMock(a) ==
    [status |-> succeeded,
     payment_id |-> a.payment_id,
     connector |-> a.connector,
     reference_id |-> a.reference_id,
     last_synced_at |-> "2024-03-21T10:05:00Z",
     note |-> "Mock implementation (gRPC not available)"]

\* the dict get_payment_details returns
DetailsResult(payment_id) ==
    IF payment_id = EmptyStr THEN Error(<<"Payment ID is required">>)
    ELSE [payment_id |-> payment_id,
          status |-> succeeded,
          amount |-> 1000,
          currency |-> USD,
          payment_method |-> card,
          created_at |-> "2024-03-21T10:00:00Z",
          updated_at |-> "2024-03-21T10:05:00Z"]

\* ----------------------------------------------------------------- actions
\* A caller enters a tool: everything up to the return of a validation error,
\* the return of the mock dict, or the point where the channel is created.
Enter(t, tool, a, c, early) ==
    /\ pc[t] \in {"idle", "done"}
    /\ op' = [op EXCEPT ![t] = tool]
    /\ args' = [args EXCEPT ![t] = a]
    /\ creds' = [creds EXCEPT ![t] = c]
    /\ channel' = [channel EXCEPT ![t] = "none"]
    /\ request' = [request EXCEPT ![t] = Unset]
    /\ invoked' = [invoked EXCEPT ![t] = <<>>]
    /\ response' = [response EXCEPT ![t] = Unset]
    /\ IF early = Nothing
       THEN /\ pc' = [pc EXCEPT ![t] = "open"]
            /\ result' = [result EXCEPT ![t] = Unset]
       ELSE /\ pc' = [pc EXCEPT ![t] = "done"]
            /\ result' = [result EXCEPT ![t] = OuterExcept(early[1])]
    /\ random' = [random EXCEPT ![t] = Nothing]
    /\ previous' = [previous EXCEPT ![t] =
          IF invoked[t] = <<>> \/ Concurrent THEN Nothing
          ELSE Some([tool |-> op[t], random |-> random[t],
                     id |-> request[t].connector_request_reference_id])]
    /\ UNCHANGED <<GRPC_AVAILABLE, callers, environ, open_channels>>

authorize_payment(t) ==
    \E a \in AuthorizeInputs :
        LET invalid == AuthorizeValidation(a)
            c == IF invalid = Nothing
                 THEN ResolveCredentials(a.connector, a.api_key) ELSE Unset
        IN  IF invalid # Nothing THEN Enter(t, "authorize_payment", a, c, invalid)
            ELSE IF GRPC_AVAILABLE THEN Enter(t, "authorize_payment", a, c, Nothing)
            ELSE \E rnd1 \in urandom, rnd2 \in urandom :
                    Enter(t, "authorize_payment", a, c,
                          Some(AuthorizeMock(a, rnd1, rnd2)))

sync_payment(t) ==
    \E a \in SyncInputs :
        LET invalid == SyncValidation(a)
            c == IF invalid = Nothing
                 THEN ResolveCredentials(a.connector, a.api_key) ELSE Unset
        IN  Enter(t, "sync_payment", a, c,
                  IF invalid # Nothing THEN invalid
                  ELSE IF GRPC_AVAILABLE THEN Nothing
                  ELSE Some(SyncMock(a)))

get_payment_details(t) ==
    \E payment_id \in DetailsInputs :
        Enter(t, "get_payment_details", [payment_id |-> payment_id], Unset,
              Some(DetailsResult(payment_id)))

\* the except clauses of the inner try
RpcErrorResult(e) == Error(<<"RPC error: ", e[1], ": ", e[2]>>)
ClientErrorResult(msg) == Error(<<"gRPC client error: ", msg>>)

\* the request constructor raises on a value it cannot convert
\* (int(nan * 100) is a ValueError)
BuildRaises(tool, a) == tool = "authorize_payment" /\ a.amount.kind = "nan"

\* grpc.insecure_channel, PaymentServiceStub and the request constructor
OpenChannel(t) ==
    /\ pc[t] = "open"
    /\ \/ \* insecure_channel raises: no channel in locals
          \E msg \in TransportExceptions :
            /\ result' = [result EXCEPT ![t] = ClientErrorResult(msg)]
            /\ pc' = [pc EXCEPT ![t] = "finally"]
            /\ UNCHANGED <<open_channels, channel, request, random>>
       \/ \* the channel is created, the stub constructor raises
          \E msg \in TransportExceptions :
            /\ open_channels' = open_channels + 1
            /\ channel' = [channel EXCEPT ![t] = "open"]
            /\ result' = [result EXCEPT ![t] = ClientErrorResult(msg)]
            /\ pc' = [pc EXCEPT ![t] = "finally"]
            /\ UNCHANGED <<request, random>>
       \/ \* the channel is created, the request constructor raises
          /\ BuildRaises(op[t], args[t])
          /\ open_channels' = open_channels + 1
          /\ channel' = [channel EXCEPT ![t] = "open"]
          /\ result' = [result EXCEPT ![t] =
                ClientErrorResult("cannot convert float NaN to integer")]
          /\ pc' = [pc EXCEPT ![t] = "finally"]
          /\ UNCHANGED <<request, random>>
       \/ \* the channel is created and the request is built
          /\ ~ BuildRaises(op[t], args[t])
          /\ \E rnd \in (IF Truthy(args[t].reference_id) THEN {0} ELSE urandom) :
                /\ request' = [request EXCEPT ![t] =
                      IF op[t] = "authorize_payment"
                      THEN AuthorizeRequest(args[t], creds[t], rnd)
                      ELSE SyncRequest(args[t], creds[t], rnd)]
                /\ random' = [random EXCEPT ![t] =
                      IF Truthy(args[t].reference_id) THEN Nothing ELSE Some(rnd)]
          /\ open_channels' = open_channels + 1
          /\ channel' = [channel EXCEPT ![t] = "open"]
          /\ pc' = [pc EXCEPT ![t] = "invoke"]
          /\ UNCHANGED result
    /\ UNCHANGED <<GRPC_AVAILABLE, callers, environ, op, args, creds, invoked,
                   response, previous>>

\* the remote method of a tool
RemoteMethod(tool) ==
    IF tool = "authorize_payment" THEN "PaymentAuthorize" ELSE "PaymentSync"

\* an invocation that is tried again when it raises an RpcError
InvokeRetries(t) ==
    /\ pc[t] = "invoke"
    /\ invoked' = [invoked EXCEPT ![t] = Append(@, RemoteMethod(op[t]))]
    /\ \/ \E resp \in (IF op[t] = "authorize_payment"
                       THEN AuthorizeAnswers ELSE SyncAnswers) :
            /\ response' = [response EXCEPT ![t] = resp]
            /\ result' = [result EXCEPT ![t] =
                  IF op[t] = "authorize_payment"
                  THEN AuthorizeResult(args[t], resp)
                  ELSE SyncResult(args[t], resp)]
            /\ pc' = [pc EXCEPT ![t] = "finally"]
       \/ \E e \in RpcErrors :
            /\ Len(invoked[t]) < 2
            /\ UNCHANGED <<response, result, pc>>
       \/ \E msg \in TransportExceptions :
            /\ result' = [result EXCEPT ![t] = ClientErrorResult(msg)]
            /\ pc' = [pc EXCEPT ![t] = "finally"]
            /\ UNCHANGED response
    /\ UNCHANGED <<GRPC_AVAILABLE, callers, environ, open_channels, op, args,
                   creds, channel, request, random, previous>>

\* client.PaymentAuthorize(request) / client.PaymentSync(request) and the
\* normalisation of what comes back
Invoke(t) ==
    /\ pc[t] = "invoke"
    /\ invoked' = [invoked EXCEPT ![t] = Append(@, RemoteMethod(op[t]))]
    /\ \/ \E resp \in (IF op[t] = "authorize_payment"
                       THEN AuthorizeAnswers ELSE SyncAnswers) :
            /\ response' = [response EXCEPT ![t] = resp]
            /\ result' = [result EXCEPT ![t] =
                  IF op[t] = "authorize_payment"
                  THEN AuthorizeResult(args[t], resp)
                  ELSE SyncResult(args[t], resp)]
       \/ \E e \in RpcErrors :
            /\ result' = [result EXCEPT ![t] = RpcErrorResult(e)]
            /\ UNCHANGED response
       \/ \E msg \in TransportExceptions :
            /\ result' = [result EXCEPT ![t] = ClientErrorResult(msg)]
            /\ UNCHANGED response
    /\ pc' = [pc EXCEPT ![t] = "finally"]
    /\ UNCHANGED <<GRPC_AVAILABLE, callers, environ, open_channels, op, args,
                   creds, channel, request, random, previous>>

\* the return without the finally clause: the channel is never closed
FinallyNoClose(t) ==
    /\ pc[t] = "finally"
    /\ pc' = [pc EXCEPT ![t] = "done"]
    /\ UNCHANGED <<GRPC_AVAILABLE, callers, environ, open_channels, op, args,
                   creds, channel, request, invoked, response, result, random,
                   previous>>

\* the finally clause and the return; an exception of channel.close()
\* replaces the pending return and is caught by the outer except.
\* channel[t] = "closed" and the decrement of open_channels record that
\* channel.close() was called.
Finally(t) ==
    /\ pc[t] = "finally"
    /\ IF channel[t] # "none"
       THEN /\ channel' = [channel EXCEPT ![t] = "closed"]
            /\ open_channels' = open_channels - 1
            /\ \/ UNCHANGED result
               \/ \E msg \in TransportExceptions :
                    result' = [result EXCEPT ![t] = OuterExcept(Raise(msg))]
       ELSE UNCHANGED <<channel, open_channels, result>>
    /\ pc' = [pc EXCEPT ![t] = "done"]
    /\ UNCHANGED <<GRPC_AVAILABLE, callers, environ, op, args, creds, request,
                   invoked, response, random, previous>>

Next ==
    \E t \in callers :
        \/ authorize_payment(t)
        \/ sync_payment(t)
        \/ get_payment_details(t)
        \/ OpenChannel(t)
        \/ Invoke(t)
        \/ Finally(t)

Spec == Init /\ [][Next]_vars

ConcSpec == ConcInit /\ [][Next]_vars

\* ------------------------------------------------------------------ claims
IsError(r) == "error" \in DOMAIN r
HasStatus(r) == "status" \in DOMAIN r
Returned(t) == pc[t] = "done"
InCall(t) == pc[t] \in {"open", "invoke", "finally"}

\* C1: every call of the three tools ends by returning a dict (an error dict
\* or a status dict), whatever the arguments and whatever the transport does;
\* no exception is ever what the caller gets.
C1_AlwaysReturnsValue ==
    \A t \in callers :
        /\ "raised" \notin DOMAIN result[t]
        /\ Returned(t) => (IsError(result[t]) \/ HasStatus(result[t]))

\* C1 witness: a response was received, channel.close() raised, and the call
\* returned the error dict of the outer except
C1_Witness ==
    \E t \in callers :
        /\ Returned(t) /\ op[t] = "sync_payment"
        /\ response[t] # Unset /\ channel[t] = "closed"
        /\ result[t] = Error(<<"transport failure">>)

\* C2: when authorize_payment or sync_payment has returned, the channel the
\* call opened has been closed, on every exit path; once every call has
\* returned no channel is open.
C2_ChannelClosedOnReturn ==
    /\ \A t \in callers : ~ InCall(t) => channel[t] # "open"
    /\ (\A t \in callers : ~ InCall(t)) => open_channels = 0

\* C2 witness: the request constructor raised after the channel was opened,
\* and the call returned with the channel closed
C2_Witness ==
    \E t \in callers :
        /\ Returned(t) /\ op[t] = "authorize_payment"
        /\ args[t].amount.kind = "nan"
        /\ request[t] = Unset /\ channel[t] = "closed" /\ open_channels = 0
        /\ IsError(result[t])

RejectedAuthorizeArgs(a) ==
    \/ a.amount.kind = "num" /\ a.amount.milli <= 0
    \/ a.currency \notin Currency
    \/ a.connector \notin Connector

RejectedSyncArgs(a) ==
    \/ a.payment_id = EmptyStr
    \/ a.connector \notin Connector

\* C3: a call of authorize_payment with amount <= 0, an unsupported currency
\* or an unsupported connector, and a call of sync_payment with an empty
\* payment_id or an unsupported connector, returns an error dict and neither
\* opens a channel nor invokes a remote method.
C3_ValidationBeforeTransport ==
    \A t \in callers :
        (\/ op[t] = "authorize_payment" /\ RejectedAuthorizeArgs(args[t])
         \/ op[t] = "sync_payment" /\ RejectedSyncArgs(args[t]))
        => /\ Returned(t) /\ IsError(result[t])
           /\ channel[t] = "none" /\ invoked[t] = <<>> /\ request[t] = Unset

\* C3 witness: an authorize call with an unsupported connector has returned
\* its error while gRPC is available
C3_Witness ==
    \E t \in callers :
        /\ GRPC_AVAILABLE /\ Returned(t) /\ op[t] = "authorize_payment"
        /\ args[t].connector \notin Connector
        /\ result[t] = Error(<<"Unsupported payment connector">>)

\* the arguments of an authorize call that are not the currency, the
\* connector, the method or the card are valid
ValidAmount(a) == a.amount.kind = "num" /\ a.amount.milli > 0

CardComplete(a) ==
    /\ CardOf(a) # NotADict
    /\ \A field \in required_card_fields :
          field \in DOMAIN CardOf(a) /\ CardOf(a)[field] # ""

\* C4: a currency or connector token that equals a supported member up to
\* letter case is not rejected by authorize_payment, and the wire request
\* carries the wire enum value of that member.
C4_CaseInsensitiveTokens ==
    \A t \in callers :
        (/\ op[t] = "authorize_payment"
         /\ ValidAmount(args[t]) /\ CardComplete(args[t])
         /\ args[t].payment_method \in PaymentMethod
         /\ upper(args[t].currency) \in Currency
         /\ upper(args[t].connector) \in Connector)
        => /\ Returned(t) =>
                /\ result[t] # Error(<<"Unsupported currency">>)
                /\ result[t] # Error(<<"Unsupported payment connector">>)
           /\ request[t] # Unset =>
                /\ request[t].currency = currency_map[upper(args[t].currency)]
                /\ request[t].connector = connector_map[upper(args[t].connector)]

\* C5: a payment_method token other than "card" never makes authorize_payment
\* fail: no error is returned for the method and the wire request is built
\* with the CARD wire enum value.
C5_UnknownMethodFallsBack ==
    \A t \in callers :
        (/\ op[t] = "authorize_payment"
         /\ ValidAmount(args[t]) /\ CardComplete(args[t])
         /\ args[t].currency \in Currency /\ args[t].connector \in Connector
         /\ args[t].payment_method # card)
        => /\ Returned(t) => result[t] # Error(<<"Unsupported payment method">>)
           /\ (GRPC_AVAILABLE /\ pc[t] \in {"invoke", "finally", "done"}
               /\ request[t] # Unset)
              => request[t].payment_method = "PBPaymentMethod.CARD"

\* C6: authorize_payment with caller-supplied card details in which a required
\* field is missing or is the empty string returns an error dict and makes no
\* remote call.
C6_CardFieldsNonEmpty ==
    \A t \in callers :
        (/\ GRPC_AVAILABLE
         /\ op[t] = "authorize_payment"
         /\ args[t].card_details # Nothing
         /\ CardOf(args[t]) # NotADict
         /\ ~ CardComplete(args[t]))
        => /\ Returned(t) => IsError(result[t])
           /\ invoked[t] = <<>>

\* round(a * 100) on the exact decimal value of the amount (no amount of the
\* model is half-way between two integers of minor units)
RoundTimes100(milli) == (milli + 5) \div 10

\* C7: the minor_amount of the wire request is round(amount * 100), and the
\* amount field of the wire request equals its minor_amount field.
C7_MinorAmountIsRounded ==
    \A t \in callers :
        (op[t] = "authorize_payment" /\ request[t] # Unset)
        => /\ request[t].minor_amount = RoundTimes100(args[t].amount.milli)
           /\ request[t].amount = request[t].minor_amount

Sent(t) == invoked[t] # <<>>
ReferenceId(t) == request[t].connector_request_reference_id
Prefix(tool) == IF tool = "authorize_payment" THEN ref_ ELSE conn_req_
HexChars == {HexDigits[i] : i \in 1..16}

\* a generated reference id: the prefix of the tool, then eight hex digits
WellFormedGenerated(tool, id) ==
    /\ Len(id) = Len(Prefix(tool)) + 8
    /\ SubSeq(id, 1, Len(Prefix(tool))) = Prefix(tool)
    /\ \A i \in (Len(Prefix(tool)) + 1)..Len(id) : id[i] \in HexChars

\* the call before this one and this one both generated their reference id
BothGenerated(t) ==
    /\ Sent(t) /\ random[t] # Nothing
    /\ previous[t] # Nothing /\ previous[t][1].random # Nothing

C8_ExplicitIsVerbatim ==
    \A t \in callers :
        (Sent(t) /\ Truthy(args[t].reference_id))
        => /\ ReferenceId(t) = args[t].reference_id[1]
           /\ random[t] = Nothing
           /\ (previous[t] # Nothing /\ previous[t][1].random = Nothing
               /\ previous[t][1].id = args[t].reference_id[1])
              => ReferenceId(t) = previous[t][1].id

C8_OmittedIsGenerated ==
    \A t \in callers :
        (Sent(t) /\ ~ Truthy(args[t].reference_id))
        => /\ random[t] # Nothing
           /\ ReferenceId(t) # EmptyStr
           /\ WellFormedGenerated(op[t], ReferenceId(t))

\* C8 as stated: an explicit reference_id is sent verbatim, an omitted or
\* empty one is replaced by prefix + random hex, and two calls that generate
\* their ids send different ids.
C8_GeneratedIdsAlwaysDiffer ==
    /\ C8_ExplicitIsVerbatim
    /\ C8_OmittedIsGenerated
    /\ \A t \in callers :
          BothGenerated(t) => ReferenceId(t) # previous[t][1].id

\* C8 amended: an explicit reference_id is sent verbatim, an omitted or empty
\* one is replaced by prefix + eight hex digits of os.urandom(4), and two
\* calls that generate their ids send the same id exactly when they are calls
\* of the same tool to which os.urandom returned the same bytes.
C8_ReferenceIds ==
    /\ C8_ExplicitIsVerbatim
    /\ C8_OmittedIsGenerated
    /\ \A t \in callers :
          BothGenerated(t)
          => ((ReferenceId(t) = previous[t][1].id)
              <=> (op[t] = previous[t][1].tool
                   /\ random[t] = previous[t][1].random))

\* C8 witness: two sync calls in a row generated different ids, and before
\* them a call sent its explicit id
C8_Witness ==
    \E t \in callers :
        /\ BothGenerated(t) /\ op[t] = "sync_payment"
        /\ previous[t][1].tool = "sync_payment"
        /\ ReferenceId(t) # previous[t][1].id
        /\ pc[t] = "done"

\* the table of the claim
ExpectedStatus(code) ==
    CASE code = 3 -> pending_authentication
      [] code = 7 -> charged
      [] code = 2 -> pending
      [] code = 99 -> <<"9", "9">>
      [] code = 4 -> <<"4">>
      [] OTHER -> lower(str(code))

\* C9: the status of a result is a total function of the wire status code:
\* 3, 7 and 2 give pending_authentication, charged and pending, any other code
\* gives its lower-cased string form; the value handed to return for a
\* received response is never an error dict, and both tools use one table.
C9_StatusNormalization ==
    \A t \in callers :
        (response[t] # Unset /\ hasattr(response[t], "status"))
        => /\ pc[t] = "finally" =>
                HasStatus(result[t]) /\ ~ IsError(result[t])
           /\ HasStatus(result[t]) =>
                result[t].status = ExpectedStatus(response[t].status)

\* C9 witness: a sync call returned "charged" for code 7
C9_Witness ==
    \E t \in callers :
        /\ Returned(t) /\ op[t] = "sync_payment"
        /\ response[t] # Unset /\ hasattr(response[t], "status")
        /\ response[t].status = 7
        /\ HasStatus(result[t]) /\ result[t].status = charged

\* C10: a returned dict has exactly one of "error" and "status"; a remote
\* invocation that raised yields an error dict without status or payment_id;
\* a received response yields a dict with a status and no error.
C10_ErrorXorStatus ==
    \A t \in callers :
        Returned(t) =>
            /\ IsError(result[t]) # HasStatus(result[t])
            /\ (invoked[t] # <<>> /\ response[t] = Unset)
               => /\ IsError(result[t])
                  /\ "payment_id" \notin DOMAIN result[t]
            /\ response[t] # Unset
               => HasStatus(result[t]) /\ ~ IsError(result[t])

\* the response carries no resource_id, or one without a transaction id
NoTransactionId(resp) ==
    \/ "resource_id" \notin DOMAIN resp
    \/ "connector_transaction_id" \notin DOMAIN resp.resource_id

\* the response carries no redirection form endpoint
NoRedirectEndpoint(resp) ==
    \/ "redirection_data" \notin DOMAIN resp
    \/ "form" \notin DOMAIN resp.redirection_data
    \/ "endpoint" \notin DOMAIN resp.redirection_data.form

\* the value handed to return for a received response is a status dict
NormalizedWithoutError(t) ==
    /\ pc[t] = "finally" => HasStatus(result[t])
    /\ HasStatus(result[t]) => ~ IsError(result[t])

\* C11 as stated: for both tools, a response without resource_id or without
\* connector_transaction_id gives payment_id = "" and an authorize response
\* without redirection form endpoint gives redirect_url = "", never an error.
C11_MissingIdIsEmptyString ==
    \A t \in callers :
        response[t] # Unset =>
            /\ NormalizedWithoutError(t)
            /\ (HasStatus(result[t]) /\ NoTransactionId(response[t]))
               => result[t].payment_id = EmptyStr
            /\ (HasStatus(result[t]) /\ op[t] = "authorize_payment"
                /\ NoRedirectEndpoint(response[t]))
               => result[t].redirect_url = ""

\* C11 amended: normalisation never fails on a missing substructure; without
\* a transaction id authorize_payment gives payment_id = "" and sync_payment
\* gives back the payment_id it was called with; an authorize response
\* without redirection form endpoint gives redirect_url = "".
C11_MissingSubstructures ==
    \A t \in callers :
        response[t] # Unset =>
            /\ NormalizedWithoutError(t)
            /\ (HasStatus(result[t]) /\ NoTransactionId(response[t]))
               => result[t].payment_id =
                    (IF op[t] = "authorize_payment" THEN EmptyStr
                     ELSE args[t].payment_id)
            /\ (HasStatus(result[t]) /\ op[t] = "authorize_payment"
                /\ NoRedirectEndpoint(response[t]))
               => result[t].redirect_url = ""

\* C11 witness: sync_payment returned the caller's payment_id for a response
\* without resource_id
C11_Witness ==
    \E t \in callers :
        /\ Returned(t) /\ op[t] = "sync_payment"
        /\ response[t] # Unset /\ "resource_id" \notin DOMAIN response[t]
        /\ HasStatus(result[t]) /\ result[t].payment_id = pay_1

\* the error dicts that come from the transport, not from the arguments
TransportErrorDicts ==
    {ClientErrorResult(msg) : msg \in TransportExceptions}
    \cup {RpcErrorResult(e) : e \in RpcErrors}
    \cup {Error(<<msg>>) : msg \in TransportExceptions}

\* the arguments of a call are valid apart from the credential
ValidApartFromCredential(t) ==
    \/ /\ op[t] = "authorize_payment"
       /\ ValidAmount(args[t]) /\ CardOf(args[t]) # NotADict
       /\ \A field \in required_card_fields : field \in DOMAIN CardOf(args[t])
       /\ args[t].currency \in Currency /\ args[t].connector \in Connector
       /\ args[t].payment_method \in PaymentMethod
    \/ /\ op[t] = "sync_payment"
       /\ args[t].payment_id # EmptyStr /\ args[t].connector \in Connector

\* C12: a supplied api_key is sent verbatim for every connector; without one
\* RAZORPAY sends API_KEY and KEY1 of the environment (or the placeholders),
\* STRIPE and ADYEN send an empty api_key and key1; a missing credential
\* neither yields an error dict nor keeps the call from the remote method.
C12_CredentialResolution ==
    \A t \in callers :
        /\ (request[t] # Unset /\ args[t].api_key # "")
           => request[t].auth_creds.api_key = args[t].api_key
        /\ (request[t] # Unset /\ args[t].api_key = ""
            /\ args[t].connector = RAZORPAY)
           => /\ request[t].auth_creds.api_key =
                    (IF "API_KEY" \in DOMAIN environ THEN environ.API_KEY
                     ELSE "<YOUR_RAZORPAY_API_KEY>")
              /\ request[t].auth_creds.key1 =
                    (IF "KEY1" \in DOMAIN environ THEN environ.KEY1
                     ELSE "<YOUR_RAZORPAY_KEY1>")
        /\ (request[t] # Unset /\ args[t].api_key = ""
            /\ args[t].connector \in {STRIPE, ADYEN})
           => request[t].auth_creds = [api_key |-> "", key1 |-> ""]
        /\ (GRPC_AVAILABLE /\ ValidApartFromCredential(t)
            /\ args[t].api_key = "")
           => /\ (Returned(t) /\ IsError(result[t]))
                 => result[t] \in TransportErrorDicts
              /\ pc[t] = "invoke" => request[t] # Unset
              /\ response[t] # Unset => Sent(t)

\* C12 witness: a RAZORPAY call without api_key was sent with API_KEY of the
\* environment and the KEY1 placeholder, and a response came back
C12_Witness ==
    \E t \in callers :
        /\ Sent(t) /\ response[t] # Unset
        /\ args[t].connector = RAZORPAY /\ args[t].api_key = ""
        /\ request[t].auth_creds =
              [api_key |-> "env_api_key", key1 |-> "<YOUR_RAZORPAY_KEY1>"]

\* everything a caller holds for its current call
Locals(t) ==
    <<pc[t], op[t], args[t], creds[t], channel[t], request[t], invoked[t],
      response[t], result[t], random[t], previous[t]>>

\* a STRIPE or ADYEN call without api_key carries an empty credential
C13_EmptyCredential ==
    \A t \in callers :
        (request[t] # Unset /\ args[t].api_key = ""
         /\ args[t].connector \in {STRIPE, ADYEN})
        => request[t].auth_creds = [api_key |-> "", key1 |-> ""]

\* two calls of the same tool with the same arguments, the same random bytes
\* and the same response have the same wire request and the same normalized
\* result, whatever else ran before or beside them
C13_Determined ==
    \A t \in callers : \A u \in callers \ {t} :
        (op[t] = op[u] /\ op[t] # "none" /\ args[t] = args[u])
        => /\ (request[t] # Unset /\ request[u] # Unset
               /\ random[t] = random[u])
              => request[t] = request[u]
           /\ (response[t] # Unset /\ response[t] = response[u]
               /\ HasStatus(result[t]) /\ HasStatus(result[u]))
              => result[t] = result[u]
           /\ (GRPC_AVAILABLE /\ Returned(t) /\ Returned(u)
               /\ channel[t] = "none" /\ channel[u] = "none")
              => result[t] = result[u]

\* the open channels are exactly the channels the running calls hold open
C13_OwnChannels ==
    open_channels = Cardinality({t \in callers : channel[t] = "open"})

\* a step is a step of one caller: it leaves the locals of every other
\* caller alone, and it opens or closes no channel but that caller's own
C13_OwnStep ==
    \E t \in callers :
        /\ \A u \in callers \ {t} : Locals(u)' = Locals(u)
        /\ open_channels' - open_channels =
              (IF channel[t] # "open" /\ channel'[t] = "open" THEN 1 ELSE 0)
              - (IF channel[t] = "open" /\ channel'[t] = "closed" THEN 1 ELSE 0)
        /\ channel'[t] = "closed" => channel[t] \in {"open", "closed"}
        /\ environ' = environ /\ GRPC_AVAILABLE' = GRPC_AVAILABLE

\* C13: no state is carried across calls: in every interleaving of two
\* callers the wire request and the result of a call depend only on its own
\* arguments, the environment, its own random bytes and its own response; a
\* STRIPE or ADYEN call without api_key sends an empty credential whatever
\* another call resolved; each call closes only the channel it opened.
C13_NoSharedState ==
    /\ [](C13_EmptyCredential /\ C13_Determined /\ C13_OwnChannels)
    /\ [][C13_OwnStep]_vars

\* C13 witness: t2 has sent an ADYEN sync call with an empty credential over
\* its own channel while t1 is in a RAZORPAY call that resolved the
\* credentials of the environment and holds its own channel open
C13_Witness ==
    /\ callers = Threads
    /\ op["t1"] = "authorize_payment" /\ args["t1"].connector = RAZORPAY
    /\ pc["t1"] = "invoke" /\ channel["t1"] = "open"
    /\ request["t1"].auth_creds.key1 = "env_key1"
    /\ op["t2"] = "sync_payment" /\ args["t2"].connector = ADYEN
    /\ Returned("t2") /\ Sent("t2") /\ channel["t2"] = "closed"
    /\ request["t2"].auth_creds = [api_key |-> "", key1 |-> ""]
    /\ open_channels = 1

\* what get_payment_details gives for a payment_id
PlaceholderDetails(payment_id) ==
    [payment_id |-> payment_id,
     status |-> <<"s","u","c","c","e","e","d","e","d">>,
     amount |-> 1000,
     currency |-> <<"U","S","D">>,
     payment_method |-> <<"c","a","r","d">>,
     created_at |-> "2024-03-21T10:00:00Z",
     updated_at |-> "2024-03-21T10:05:00Z"]

\* C14: a call invokes at most one remote method and only the one of its
\* tool: authorize_payment PaymentAuthorize, sync_payment PaymentSync; an
\* invocation that raised is returned as an error without a second
\* invocation; get_payment_details invokes nothing, opens no channel, and
\* its result is a function of payment_id alone.
C14_AtMostOneInvocation ==
    \A t \in callers :
        /\ Len(invoked[t]) <= 1
        /\ op[t] = "authorize_payment"
           => invoked[t] \in {<<>>, <<"PaymentAuthorize">>}
        /\ op[t] = "sync_payment"
           => invoked[t] \in {<<>>, <<"PaymentSync">>}
        /\ invoked[t] # <<>> => pc[t] \in {"finally", "done"}
        /\ (Returned(t) /\ invoked[t] # <<>> /\ response[t] = Unset)
           => IsError(result[t])
        /\ op[t] = "get_payment_details"
           => /\ Returned(t)
              /\ invoked[t] = <<>> /\ channel[t] = "none" /\ request[t] = Unset
              /\ result[t] =
                    (IF args[t].payment_id = EmptyStr
                     THEN [error |-> <<"Payment ID is required">>]
                     ELSE PlaceholderDetails(args[t].payment_id))

\* C14 witness: PaymentSync raised an RpcError and sync_payment returned
\* that error after the one invocation
C14_Witness ==
    \E t \in callers :
        /\ Returned(t) /\ op[t] = "sync_payment"
        /\ invoked[t] = <<"PaymentSync">> /\ response[t] = Unset
        /\ result[t] =
              [error |-> <<"RPC error: ", "StatusCode.UNAVAILABLE", ": ",
                           "failed to connect">>]

====
